---- MODULE Spec2Model ----
(***************************************************************************)
(* The command palette (SearchModal) of apps/carbon: the debounced search  *)
(* input, the backend full-text search requests, the recent-selections     *)
(* list kept in the persistent key-value store, and selection handling.    *)
(***************************************************************************)
EXTENDS Integers, Sequences, FiniteSets, TLC

\* ------------------------------------------------------------ constants
\* useDebounce(input, 500)
DebounceDelay == 500
\* .slice(0, 5)
MaxRecents == 5
\* .limit(20)
Limit == 20

\* ------------------------------------------------------------ bounds
\* most input changes of one burst
MaxBurst == 3
\* most backend requests in flight at once
MaxInFlight == 2
\* most selections whose store read is pending at once
MaxPending == 2
\* longest input of a render whose item values are compared
MaxInputLen == 3
\* longest query whose pattern is built
MaxQueryLen == 3
\* most backend requests issued for one settled query, and between two
\* bursts of input once the client has changed
MaxRequests == 2
\* rows of the search table that match the query with the most matches
MaxRows == 22

\* ------------------------------------------------------------ values
\* what idb.getItem resolves to: null when the key holds nothing, or a list
NoValue == [has |-> FALSE, list |-> <<>>]
Stored(list) == [has |-> TRUE, list |-> list]
\* resultsFor when the dynamic section holds no response
NoQuery == "none"
\* what useSupabase() returns: no client yet, or one of the clients that follow
\* one another as the session is refreshed
NoClient == "undefined"
Clients == {"client1", "client2"}

\* the strings the user types
Queries == {"", "w", "wi"}
\* the time that passes in one step of the clock, in ms
Durations == {250}

Route(to, name) == [to |-> to, name |-> name]
NoRoute == Route("", "")
\* what the palette offers for selection: one route more than the recents hold
Routes ==
    { Route("/a", "A"), Route("/b", "B"), Route("/c", "C"),
      Route("/d", "D"), Route("/e", "E"), Route("/f", "F") }
\* the selections of the search specification
FewRoutes == { Route("/a", "A") }

\* the characters of a query: letters, the space and the tab
Chars == {"a", "b", " ", "\t"}
\* the strings of at most n characters, as sequences of characters
Strings(n) == UNION { [1..k -> Chars] : k \in 0..n }
\* "acme" and "acme part"
Acme == <<"a", "c", "m", "e">>
AcmePart == <<"a", "c", "m", "e", " ", "p", "a", "r", "t">>
\* pattern before getSearchResults has built one
NoPattern == <<"none">>

Slots == 1..MaxPending
IdleSelect == [pc |-> "idle", route |-> NoRoute, snap |-> NoValue]

Min(a, b) == IF a < b THEN a ELSE b

VARIABLES
    isOpen,          \* useDisclosure().isOpen
    input,           \* useState("") of the command input
    debouncedInput,  \* the settled query, useDebounce(input, 500)[0]
    timerPending,    \* the debouncer has a pending emission (of input)
    elapsed,         \* ms since the last input change, capped at DebounceDelay
    loading,         \* useState(false)
    searchResults,   \* the dynamic section: ids of the search documents
    resultsFor,      \* the query whose response searchResults holds
    inflight,        \* backend requests not yet resolved, per query
    recentResults,   \* the recents list in memory
    store,           \* the value under "recentSearches" in the store
    mount,           \* the useMount load: pc and the value read
    sel,             \* the running onSelect calls: pc, route, value read
    log,             \* the effects of the onSelect calls, in order
    burstInputs,     \* the input changes of the current burst
    burstEmitted,    \* the settled values emitted since the burst began
    burstRequests,   \* the backend requests issued since the burst began
    burstPrev,       \* the settled query when the burst began
    issued,          \* the backend requests issued for the settled query
    supabase,        \* useSupabase().supabase
    query,           \* the argument q of getSearchResults, as characters
    pattern,         \* the argument of textSearch("fts", ..) built from q
    permissions,     \* the resources the user may view
    modules,         \* useModules(): the modules of this render
    submodules,      \* what the use..Submodules() hooks return, by key
    staticResults,   \* useGroupedSubmodules(): the groups, in insertion order
    renderError,     \* useGroupedSubmodules() threw in this render
    lastChange,      \* the last change of the permission set
    shown,           \* what a render reads, its strings as characters
    values           \* the `value` of every CommandItem of the render

searchVars == <<loading, searchResults, resultsFor, inflight>>
debounceVars == <<input, debouncedInput, timerPending, elapsed>>
burstVars == <<burstInputs, burstEmitted, burstRequests, burstPrev, issued>>
recentVars == <<recentResults, store, mount, sel, log>>
\* what no step of the search surface or of a selection writes
patternVars == <<query, pattern>>
staticVars == <<permissions, modules, submodules, staticResults, renderError,
                lastChange>>
renderVars == <<shown, values>>
auxVars == <<supabase, patternVars, staticVars, renderVars>>
vars == <<isOpen, debounceVars, searchVars, recentVars, burstVars, auxVars>>

\* ------------------------------------------------------------ recents
Tos(list) == { list[i].to : i \in 1..Len(list) }
NoDuplicates(list) ==
    \A i, j \in 1..Len(list) : i # j => list[i].to # list[j].to
Slice(list, n) == SubSeq(list, 1, Min(n, Len(list)))
FilterTo(list, to) == SelectSeq(list, LAMBDA item : item.to # to)

\* NewRecentSearches without its .slice(0, 5)
NewRecentSearchesNoSlice(route, persisted) ==
    <<[to |-> route.to, name |-> route.name]>>
        \o (IF persisted.has THEN FilterTo(persisted.list, route.to) ELSE <<>>)

\* NewRecentSearches putting the selected item itself in front
NewRecentSearchesWholeRoute(route, persisted) ==
    Slice(<<route>>
            \o (IF persisted.has THEN FilterTo(persisted.list, route.to) ELSE <<>>),
          MaxRecents)

\* const newRecentSearches = [{to, name}, ...(persisted?.filter(..) ?? [])].slice(0, 5)
NewRecentSearches(route, persisted) ==
    Slice(<<[to |-> route.to, name |-> route.name]>>
            \o (IF persisted.has THEN FilterTo(persisted.list, route.to) ELSE <<>>),
          MaxRecents)

\* ------------------------------------------------------------ backend
\* the rows of the search table that match q, best first
BackendRows(q) ==
    CASE q = "w" -> [i \in 1..MaxRows |-> i]
      [] q = "wi" -> <<2, 3>>
      [] OTHER -> <<>>
Total(f) == f[""] + f["w"] + f["wi"]

\* getSearchResults(q) of the callback that closes over client. With a client:
\* setLoading(true) and the request, up to the await. Without one the awaited
\* value is undefined and the rest runs in the same task: setSearchResults([])
\* and setLoading(false)
GetSearchResultsWith(client, q) ==
    IF client # NoClient
    THEN /\ loading' = TRUE
         /\ inflight' = [inflight EXCEPT ![q] = @ + 1]
         /\ UNCHANGED <<searchResults, resultsFor>>
    ELSE /\ loading' = FALSE
         /\ searchResults' = <<>>
         /\ resultsFor' = q
         /\ UNCHANGED inflight

\* getSearchResults(q) of the current render
GetSearchResults(q) == GetSearchResultsWith(supabase, q)

\* SearchEffect searching for the empty query too
SearchEffectAlwaysSearches(d) == GetSearchResults(d)

\* the body of useEffect(() => {...}, [debouncedInput, getSearchResults]) for
\* the settled value d
SearchEffect(d) ==
    IF d # ""
    THEN GetSearchResults(d)
    ELSE /\ searchResults' = <<>>
         /\ resultsFor' = NoQuery
         /\ UNCHANGED <<loading, inflight>>

\* the dependency list of the effect: getSearchResults is a new function when
\* supabase changes (useCallback(.., [supabase])), and the effect runs again
\* for the settled value of the render, with the callback of the new client
EffectOnClient(client) ==
    IF debouncedInput # ""
    THEN GetSearchResultsWith(client, debouncedInput)
    ELSE /\ searchResults' = <<>>
         /\ resultsFor' = NoQuery
         /\ UNCHANGED <<loading, inflight>>

\* EffectOnChange running the effect whether or not the value changed
EffectEveryEmission(d) == SearchEffect(d)

\* the dependency list of the effect: it runs when debouncedInput becomes d
\* and d differs from the value of the last render
EffectOnChange(d) ==
    IF d # debouncedInput THEN SearchEffect(d) ELSE UNCHANGED searchVars

\* the debouncer emits v: the settled value is set and the component renders
Settle(v) ==
    /\ debouncedInput' = v
    /\ EffectOnChange(v)

\* ApplyResponse to a request that carried no limit
ApplyResponseUnlimited(q, ok) ==
    /\ searchResults' = (IF ok THEN BackendRows(q) ELSE <<>>)
    /\ resultsFor' = q
    /\ loading' = FALSE

\* the rest of getSearchResults(q), when the request resolves: the backend has
\* cut the matching rows at the limit of the request
ApplyResponse(q, ok) ==
    /\ searchResults' = (IF ok THEN Slice(BackendRows(q), Limit) ELSE <<>>)
    /\ resultsFor' = q
    /\ loading' = FALSE

\* ------------------------------------------------------------ pattern
\* q.split(sep): the pieces of q between the occurrences of sep, the empty
\* pieces included
RECURSIVE Split(_, _)
Split(q, sep) ==
    IF q = <<>> THEN << <<>> >>
    ELSE LET rest == Split(Tail(q), sep)
         IN IF Head(q) = sep
            THEN << <<>> >> \o rest
            ELSE << <<Head(q)>> \o Head(rest) >> \o Tail(rest)

\* `"${token}"`
Quoted(token) == <<"\"">> \o token \o <<"\"">>

\* list.join(sep)
RECURSIVE Join(_, _)
Join(list, sep) ==
    IF list = <<>> THEN <<>>
    ELSE IF Len(list) = 1 THEN Head(list)
    ELSE Head(list) \o sep \o Join(Tail(list), sep)

Adjacent == <<" ", "<", "-", ">", " ">>
MapQuoted(tokens) == [i \in 1..Len(tokens) |-> Quoted(tokens[i])]

\* tokens = q.split(" "); search = tokens.length > 1 ? tokens.map(quote)
\* .join(" <-> ") : q; the pattern is `*${search}:*`
SearchPattern(q) ==
    LET tokens == Split(q, " ")
        search == IF Len(tokens) > 1 THEN Join(MapQuoted(tokens), Adjacent) ELSE q
    IN <<"*">> \o search \o <<":", "*">>

\* ------------------------------------------------------------ static index
Module(name, resource, icon) == [name |-> name, resource |-> resource, icon |-> icon]
\* the modules of the navigation, in registry order
ModuleRegistry ==
    << Module("Parts", "parts", "AiOutlinePartition"),
       Module("Jobs", "jobs", "BiListCheck"),
       Module("Purchasing", "purchasing", "BsCartDash"),
       Module("Documents", "documents", "HiOutlineDocumentDuplicate"),
       Module("Users", "users", "BsPeopleFill"),
       Module("Settings", "settings", "LuSettings"),
       Module("My Account", "account", "CgProfile") >>
Resources == { ModuleRegistry[i].resource : i \in 1..Len(ModuleRegistry) }

\* useModules(): the modules the user may view, in registry order
UseModules(granted) ==
    SelectSeq(ModuleRegistry, LAMBDA module : module.resource \in granted)

\* module.name.toLowerCase()
ToLowerCase(name) ==
    CASE name = "Parts" -> "parts"
      [] name = "Jobs" -> "jobs"
      [] name = "Purchasing" -> "purchasing"
      [] name = "Documents" -> "documents"
      [] name = "Users" -> "users"
      [] name = "Settings" -> "settings"
      [] name = "My Account" -> "my account"
      [] OTHER -> name

Group(name, routes) == [name |-> name, routes |-> routes]
\* what usePartsSubmodules() .. useUsersSubmodules() return, by the key under
\* which groupedSubmodules holds them
groupedSubmodules ==
    [ parts |-> [groups |->
          << Group("Manage", << Route("/x/parts/search", "Parts") >>),
             Group("Configure", << Route("/x/parts/groups", "Part Groups"),
                                   Route("/x/parts/uom", "Units of Measure") >>) >>],
      inventory |-> [groups |->
          << Group("Manage", << Route("/x/inventory/receipts", "Receipts") >>) >>],
      sales |-> [groups |->
          << Group("Manage", << Route("/x/sales/customers", "Customers") >>) >>],
      purchasing |-> [groups |->
          << Group("Manage", << Route("/purchasing/suppliers", "Suppliers"),
                                Route("/x/purchasing/orders", "Purchase Orders") >>),
             Group("Configure", << Route("/x/purchasing/supplier-types",
                                         "Supplier Types") >>) >>],
      accounting |-> [groups |->
          << Group("Manage", << Route("/x/accounting/charts", "Chart of Accounts") >>) >>],
      invoicing |-> [groups |->
          << Group("Manage", << Route("/x/invoicing/purchasing", "Purchasing") >>) >>],
      resources |-> [groups |->
          << Group("Manage", << Route("/x/resources/people", "People") >>) >>],
      settings |-> [groups |-> << Group("Company", <<>>) >>],
      users |-> [groups |->
          << Group("Manage", << Route("/x/users/employees", "Employees"),
                                Route("/x/users/groups", "Groups") >>) >>] ]

\* what useDocumentsSubmodules() and useAccountSubmodules() return
ungroupedSubmodules ==
    [ m \in {"documents", "my account"} |->
        IF m = "documents"
        THEN [links |-> << Route("/x/documents/search", "All Documents"),
                           Route("/x/documents/search?q=trash", "Trash") >>]
        ELSE [links |-> << Route("/x/account/profile", "Profile") >>] ]

Command(route, module) == [to |-> route.to, name |-> route.name, icon |-> module.icon]

\* groups.flatMap((group) => group.routes.map(..))
RECURSIVE FlatMapRoutes(_, _)
FlatMapRoutes(groups, module) ==
    IF groups = <<>> THEN <<>>
    ELSE [i \in 1..Len(Head(groups).routes) |->
             Command(Head(groups).routes[i], module)]
           \o FlatMapRoutes(Tail(groups), module)

\* Assign leaving out a module that has no command
AssignUnlessEmpty(acc, key, commands) ==
    IF commands = <<>> THEN acc
    ELSE acc \o <<[module |-> key, submodules |-> commands]>>

\* Assign putting a new key first
AssignInFront(acc, key, commands) ==
    <<[module |-> key, submodules |-> commands]>> \o acc

\* acc = {...acc, [key]: commands}: a new key goes last, a key that is there
\* keeps its place
Assign(acc, key, commands) ==
    IF \E i \in 1..Len(acc) : acc[i].module = key
    THEN [i \in 1..Len(acc) |->
             IF acc[i].module = key THEN [acc[i] EXCEPT !.submodules = commands]
             ELSE acc[i]]
    ELSE Append(acc, [module |-> key, submodules |-> commands])

\* the submodule sets of a render in which every hook returns its set
DefaultSubmodules ==
    [grouped |-> groupedSubmodules, ungrouped |-> ungroupedSubmodules]

\* ReduceStep that indexes nothing
ReduceStepSkipsAll(acc, module) == acc

\* the callback of modules.reduce, for a module it does not throw on
ReduceStep(acc, module) ==
    LET moduleName == ToLowerCase(module.name)
    IN IF moduleName \in DOMAIN submodules.grouped
       THEN Assign(acc, module.name,
                   FlatMapRoutes(submodules.grouped[moduleName].groups, module))
       ELSE IF moduleName \in DOMAIN submodules.ungrouped \/ moduleName = "my account"
       THEN Assign(acc, module.name,
                   [i \in 1..Len(submodules.ungrouped[moduleName].links) |->
                       Command(submodules.ungrouped[moduleName].links[i], module)])
       ELSE acc

\* the callback of modules.reduce throws a TypeError: module.name is undefined
\* at .toLowerCase(), groups is undefined at .flatMap, or the ungrouped set or
\* its links is undefined at .links.map
ReduceStepThrows(module) ==
    \/ "name" \notin DOMAIN module
    \/ LET moduleName == ToLowerCase(module.name)
       IN IF moduleName \in DOMAIN submodules.grouped
          THEN "groups" \notin DOMAIN submodules.grouped[moduleName]
          ELSE /\ moduleName \in DOMAIN submodules.ungrouped \/ moduleName = "my account"
               /\ \/ moduleName \notin DOMAIN submodules.ungrouped
                  \/ "links" \notin DOMAIN submodules.ungrouped[moduleName]

\* Reduce starting from the groups of the render before
RECURSIVE ReducePatching(_, _)
ReducePatching(list, acc) ==
    IF list = <<>> THEN (IF acc = <<>> THEN staticResults ELSE acc)
    ELSE ReducePatching(Tail(list), ReduceStep(acc, Head(list)))

\* modules.reduce(callback, acc)
RECURSIVE Reduce(_, _)
Reduce(list, acc) ==
    IF list = <<>> THEN acc
    ELSE Reduce(Tail(list), ReduceStep(acc, Head(list)))

\* UseGroupedSubmodules indexing the whole registry
UseGroupedSubmodulesOfRegistry(list) == Reduce(ModuleRegistry, <<>>)

\* useGroupedSubmodules() for the modules that useModules() returns
UseGroupedSubmodules(list) == Reduce(list, <<>>)

\* useGroupedSubmodules() throws for the modules that useModules() returns
UseGroupedSubmodulesThrows(list) ==
    \E i \in 1..Len(list) : ReduceStepThrows(list[i])

\* a render of the palette with the module list: the static groups, or the
\* error that ends the render
RenderStatic(list) ==
    /\ modules' = list
    /\ IF UseGroupedSubmodulesThrows(list)
       THEN renderError' = TRUE /\ staticResults' = <<>>
       ELSE renderError' = FALSE /\ staticResults' = UseGroupedSubmodules(list)

\* ------------------------------------------------------------ item values
\* the characters typed into the input of a render
InputChars == {":", "/", "p"}
\* the routes of the recents of a render
ToP == <<"/", "p">>
ToP1 == <<"/", "p", "1">>
RecentTos == { <<>>, <<ToP1>>, <<ToP, ToP1>> }
\* the ids of the documents of a render
ResultIds == { <<>>, <<1>>, <<1, 2>> }
\* the static groups of a render: module and the names of its submodules
StaticShown == << [module |-> <<"P">>, names |-> << <<"s">>, <<"o">> >>] >>

\* `${n}` of a number
Digit(d) ==
    CASE d = 0 -> "0" [] d = 1 -> "1" [] d = 2 -> "2" [] d = 3 -> "3"
      [] d = 4 -> "4" [] d = 5 -> "5" [] d = 6 -> "6" [] d = 7 -> "7"
      [] d = 8 -> "8" [] d = 9 -> "9"
RECURSIVE NumberToString(_)
NumberToString(n) ==
    IF n < 10 THEN <<Digit(n)>> ELSE NumberToString(n \div 10) \o <<Digit(n % 10)>>

\* value={`:${result.to}`}
RecentValue(to) == <<":">> \o to
\* value={`${module} ${submodule.name}`}
StaticValue(module, name) == module \o <<" ">> \o name
\* value={`${input}${result.id}`}
DynamicValue(text, id) == text \o NumberToString(id)

RECURSIVE StaticValues(_)
StaticValues(groups) ==
    IF groups = <<>> THEN <<>>
    ELSE [i \in 1..Len(Head(groups).names) |->
             StaticValue(Head(groups).module, Head(groups).names[i])]
           \o StaticValues(Tail(groups))

\* the values of the CommandItems, in the order of the list
ItemValues(r) ==
    [i \in 1..Len(r.recents) |-> RecentValue(r.recents[i])]
      \o StaticValues(r.static)
      \o [i \in 1..Len(r.dynamic) |-> DynamicValue(r.input, r.dynamic[i])]

\* ------------------------------------------------------------ debouncer
NewBurst == elapsed >= DebounceDelay

\* setInput(v) with v # input, seen by useDebounce: an empty value is emitted
\* at once, any other value (re)starts the timer
SetInput(v) ==
    /\ ~(timerPending /\ elapsed >= DebounceDelay)
    /\ NewBurst \/ Len(burstInputs) < MaxBurst
    /\ input' = v
    /\ elapsed' = 0
    /\ IF v = ""
       THEN timerPending' = FALSE /\ Settle("")
       ELSE timerPending' = TRUE /\ UNCHANGED <<debouncedInput, searchVars>>
    /\ burstInputs' = (IF NewBurst THEN <<>> ELSE burstInputs) \o <<v>>
    /\ burstEmitted' = (IF NewBurst THEN <<>> ELSE burstEmitted)
                          \o (IF v = "" THEN <<"">> ELSE <<>>)
    /\ burstPrev' = (IF NewBurst THEN debouncedInput ELSE burstPrev)
    /\ burstRequests' = (IF NewBurst THEN 0 ELSE burstRequests)
                          + Total(inflight') - Total(inflight)
    /\ issued' = (IF debouncedInput' # debouncedInput THEN 0 ELSE issued)
                   + Total(inflight') - Total(inflight)

\* ResetInput without its setInput("")
ResetInputKeepsInput == UNCHANGED <<debounceVars, searchVars, burstVars>>

\* setInput("") of the open effect and of onOpenChange
ResetInput ==
    IF input = ""
    THEN UNCHANGED <<debounceVars, searchVars, burstVars>>
    ELSE SetInput("")

\* the headings of the groups that the command list renders, top to bottom
CommandGroups ==
    (IF Len(recentResults) > 0 THEN <<"Recent Searches">> ELSE <<>>)
    \o [i \in 1..Len(staticResults) |-> staticResults[i].module]
    \o (IF Len(searchResults) > 0 THEN <<"Search Results">> ELSE <<>>)

\* ------------------------------------------------------------ actions
\* searchModal.onOpen, and the effect on isOpen
Open ==
    /\ ~isOpen
    /\ isOpen' = TRUE
    /\ ResetInput
    /\ UNCHANGED recentVars
    /\ UNCHANGED auxVars

\* onOpenChange(false) of the modal: Escape or a click outside
CloseModal ==
    /\ isOpen
    /\ ResetInput
    /\ isOpen' = FALSE
    /\ UNCHANGED recentVars
    /\ UNCHANGED auxVars

\* onInputChange(value)
OnInputChange(v) ==
    /\ isOpen
    /\ v # input
    /\ SetInput(v)
    /\ UNCHANGED <<isOpen, recentVars>>
    /\ UNCHANGED auxVars

\* d ms pass without an input change
Tick(d) ==
    /\ elapsed < DebounceDelay
    /\ elapsed' = Min(elapsed + d, DebounceDelay)
    /\ UNCHANGED <<isOpen, input, debouncedInput, timerPending, searchVars,
                   recentVars, burstVars>>
    /\ UNCHANGED auxVars

\* the debounce timer fires after the quiet interval
DebounceFire ==
    /\ timerPending
    /\ elapsed >= DebounceDelay
    /\ (input # debouncedInput) => Total(inflight) < MaxInFlight
    /\ timerPending' = FALSE
    /\ Settle(input)
    /\ burstEmitted' = Append(burstEmitted, input)
    /\ burstRequests' = burstRequests + Total(inflight') - Total(inflight)
    /\ issued' = (IF debouncedInput' # debouncedInput THEN 0 ELSE issued)
                   + Total(inflight') - Total(inflight)
    /\ UNCHANGED <<isOpen, input, elapsed, recentVars, burstInputs, burstPrev>>
    /\ UNCHANGED auxVars

\* SearchResolve replacing the whole result set, recents included
SearchResolveClearsRecents(q, ok) ==
    /\ inflight[q] > 0
    /\ inflight' = [inflight EXCEPT ![q] = @ - 1]
    /\ ApplyResponse(q, ok)
    /\ recentResults' = <<>>
    /\ UNCHANGED <<isOpen, debounceVars, store, mount, sel, log, burstVars>>
    /\ UNCHANGED auxVars

\* the backend answers a request for q, with rows or with an error
SearchResolve(q, ok) ==
    /\ inflight[q] > 0
    /\ inflight' = [inflight EXCEPT ![q] = @ - 1]
    /\ ApplyResponse(q, ok)
    /\ UNCHANGED <<isOpen, debounceVars, recentVars, burstVars>>
    /\ UNCHANGED auxVars

\* the awaited request for q rejects: getSearchResults ends at its await, and
\* neither setSearchResults nor setLoading(false) runs
SearchReject(q) ==
    /\ inflight[q] > 0
    /\ inflight' = [inflight EXCEPT ![q] = @ - 1]
    /\ UNCHANGED <<loading, searchResults, resultsFor>>
    /\ UNCHANGED <<isOpen, debounceVars, recentVars, burstVars>>
    /\ UNCHANGED auxVars

\* useSupabase() returns another client, or none
SupabaseChange(client) ==
    /\ client # supabase
    /\ (debouncedInput # "" /\ client # NoClient) =>
          /\ Total(inflight) < MaxInFlight
          /\ burstRequests < MaxRequests
          /\ issued < MaxRequests
    /\ supabase' = client
    /\ EffectOnClient(client)
    /\ burstRequests' = burstRequests + Total(inflight') - Total(inflight)
    /\ issued' = issued + Total(inflight') - Total(inflight)
    /\ UNCHANGED <<patternVars, staticVars, renderVars>>
    /\ UNCHANGED <<isOpen, debounceVars, recentVars, burstInputs, burstEmitted,
                   burstPrev>>

Entry(op, s, to, n) == [op |-> op, slot |-> s, to |-> to, n |-> n]
AllIdle == \A s \in Slots : sel[s].pc = "idle"
InLog(s) == \E i \in 1..Len(log) : log[i].slot = s

\* OnSelect navigating only after it closed the palette
OnSelectCloseFirst(s, route) ==
    /\ isOpen
    /\ sel[s].pc = "idle"
    /\ AllIdle \/ ~InLog(s)
    /\ log' = (IF AllIdle THEN <<>> ELSE log)
                \o <<Entry("onClose", s, "", 0), Entry("navigate", s, route.to, 0)>>
    /\ isOpen' = FALSE
    /\ sel' = [sel EXCEPT ![s] = [pc |-> "getItem", route |-> route, snap |-> NoValue]]
    /\ UNCHANGED <<debounceVars, searchVars, burstVars, recentResults, store, mount>>
    /\ UNCHANGED auxVars

\* onSelect(route) up to its await: navigate, onClose, idb.getItem
OnSelect(s, route) ==
    /\ isOpen
    /\ sel[s].pc = "idle"
    /\ AllIdle \/ ~InLog(s)
    /\ log' = (IF AllIdle THEN <<>> ELSE log)
                \o <<Entry("navigate", s, route.to, 0), Entry("onClose", s, "", 0)>>
    /\ isOpen' = FALSE
    /\ sel' = [sel EXCEPT ![s] = [pc |-> "getItem", route |-> route, snap |-> NoValue]]
    /\ UNCHANGED <<debounceVars, searchVars, burstVars, recentResults, store, mount>>
    /\ UNCHANGED auxVars

\* the store serves the read of onSelect, or the read fails and onSelect ends
StoreRead(s, ok) ==
    /\ sel[s].pc = "getItem"
    /\ sel' = [sel EXCEPT ![s] =
                 IF ok THEN [@ EXCEPT !.pc = "resume", !.snap = store]
                 ELSE IdleSelect]
    /\ UNCHANGED <<isOpen, debounceVars, searchVars, burstVars, recentResults,
                   store, mount, log>>
    /\ UNCHANGED auxVars

\* onSelect after its await: setRecentResults and idb.setItem, which may fail
OnSelectResume(s, written) ==
    /\ sel[s].pc = "resume"
    /\ LET new == NewRecentSearches(sel[s].route, sel[s].snap)
           full == 1 + Len(FilterTo(sel[s].snap.list, sel[s].route.to))
       IN /\ recentResults' = new
          /\ store' = (IF written THEN Stored(new) ELSE store)
          /\ log' = log \o <<Entry("setRecentResults", s, "", full)>>
                        \o (IF written THEN <<Entry("setItem", s, "", 0)>> ELSE <<>>)
    /\ sel' = [sel EXCEPT ![s] = IdleSelect]
    /\ UNCHANGED <<isOpen, debounceVars, searchVars, burstVars, mount>>
    /\ UNCHANGED auxVars

\* the store serves the read of useMount, or the read fails
MountRead(ok) ==
    /\ mount.pc = "getItem"
    /\ mount' = (IF ok THEN [pc |-> "resume", snap |-> store]
                 ELSE [pc |-> "done", snap |-> NoValue])
    /\ UNCHANGED <<isOpen, debounceVars, searchVars, burstVars, recentResults,
                   store, sel, log>>
    /\ UNCHANGED auxVars

\* MountResume dropping the value it read
MountResumeDropsValue ==
    /\ mount.pc = "resume"
    /\ mount' = [pc |-> "done", snap |-> NoValue]
    /\ UNCHANGED <<isOpen, debounceVars, searchVars, burstVars, recentResults,
                   store, sel, log>>
    /\ UNCHANGED auxVars

\* useMount after its await: if (recentResultsFromStorage) setRecentResults(..)
MountResume ==
    /\ mount.pc = "resume"
    /\ recentResults' = (IF mount.snap.has THEN mount.snap.list ELSE recentResults)
    /\ mount' = [pc |-> "done", snap |-> NoValue]
    /\ UNCHANGED <<isOpen, debounceVars, searchVars, burstVars, store, sel, log>>
    /\ UNCHANGED auxVars

\* getSearchResults(q) builds its pattern
BuildPattern ==
    /\ pattern = NoPattern
    /\ pattern' = SearchPattern(query)
    /\ UNCHANGED <<isOpen, debounceVars, searchVars, recentVars, burstVars,
                   supabase, query, staticVars, renderVars>>

\* the palette renders what r holds
Render(r) ==
    /\ shown' = r
    /\ values' = ItemValues(r)
    /\ UNCHANGED <<isOpen, debounceVars, searchVars, recentVars, burstVars,
                   supabase, patternVars, staticVars>>

\* onInputChange appends character c: the documents shown stay until the
\* query settles and its response arrives
RenderInput(c) ==
    /\ Len(shown.input) < MaxInputLen
    /\ Render([shown EXCEPT !.input = Append(@, c)])

\* the input is cleared: the dynamic section is emptied with it
RenderCleared ==
    /\ shown.input # <<>>
    /\ Render([shown EXCEPT !.input = <<>>, !.dynamic = <<>>])

\* setSearchResults(result.data)
RenderResults(ids) ==
    /\ shown.input # <<>>
    /\ ids # shown.dynamic
    /\ Render([shown EXCEPT !.dynamic = ids])

NoChange == [op |-> "none", resource |-> ""]

\* the permission set gains resource r, and the palette renders
Grant(r) ==
    /\ r \notin permissions
    /\ permissions' = permissions \cup {r}
    /\ RenderStatic(UseModules(permissions'))
    /\ UNCHANGED submodules
    /\ lastChange' = [op |-> "grant", resource |-> r]
    /\ UNCHANGED <<isOpen, debounceVars, searchVars, recentVars, burstVars,
                   supabase, patternVars, renderVars>>

\* the permission set loses resource r, and the palette renders
Revoke(r) ==
    /\ r \in permissions
    /\ permissions' = permissions \ {r}
    /\ RenderStatic(UseModules(permissions'))
    /\ UNCHANGED submodules
    /\ lastChange' = [op |-> "revoke", resource |-> r]
    /\ UNCHANGED <<isOpen, debounceVars, searchVars, recentVars, burstVars,
                   supabase, patternVars, renderVars>>

\* ------------------------------------------------------------ specifications
\* no pattern built
PatternAtRest == query = <<>> /\ pattern = NoPattern
\* the first render, of a user who may view every module
StaticAtRest ==
    /\ permissions = Resources
    /\ modules = UseModules(permissions)
    /\ submodules = DefaultSubmodules
    /\ staticResults = UseGroupedSubmodules(modules)
    /\ renderError = FALSE
    /\ lastChange = NoChange
\* nothing rendered
NothingShown == [recents |-> <<>>, static |-> <<>>, input |-> <<>>, dynamic |-> <<>>]
RenderAtRest == shown = NothingShown /\ values = <<>>
AuxAtRest == PatternAtRest /\ StaticAtRest /\ RenderAtRest

\* the palette at rest: closed, a client in place, nothing typed, nothing stored
SurfaceAtRest ==
    /\ isOpen = FALSE
    /\ input = ""
    /\ debouncedInput = ""
    /\ timerPending = FALSE
    /\ elapsed = DebounceDelay
    /\ loading = FALSE
    /\ searchResults = <<>>
    /\ resultsFor = NoQuery
    /\ inflight = [q \in Queries |-> 0]
    /\ store = NoValue
    /\ recentResults = <<>>
    /\ mount = [pc |-> "done", snap |-> NoValue]
    /\ sel = [s \in Slots |-> IdleSelect]
    /\ log = <<>>
    /\ burstInputs = <<>>
    /\ burstEmitted = <<>>
    /\ burstRequests = 0
    /\ burstPrev = ""
    /\ issued = 0
    /\ supabase = "client1"

\* the state after construction: the load at mount has been started
Init ==
    /\ isOpen = FALSE
    /\ input = ""
    /\ debouncedInput = ""
    /\ timerPending = FALSE
    /\ elapsed = DebounceDelay
    /\ loading = FALSE
    /\ searchResults = <<>>
    /\ resultsFor = NoQuery
    /\ inflight = [q \in Queries |-> 0]
    /\ store = NoValue
    /\ recentResults = <<>>
    /\ mount = [pc |-> "getItem", snap |-> NoValue]
    /\ sel = [s \in Slots |-> IdleSelect]
    /\ log = <<>>
    /\ burstInputs = <<>>
    /\ burstEmitted = <<>>
    /\ burstRequests = 0
    /\ burstPrev = ""
    /\ issued = 0
    /\ supabase = "client1"
    /\ AuxAtRest

\* the search surface: input, debouncer, backend and one selection at a time
Next ==
    \/ Open
    \/ CloseModal
    \/ \E v \in Queries : OnInputChange(v)
    \/ \E d \in Durations : Tick(d)
    \/ DebounceFire
    \/ \E q \in Queries, ok \in BOOLEAN : SearchResolve(q, ok)
    \/ \E route \in FewRoutes : OnSelect(1, route)
    \/ \E ok \in BOOLEAN : StoreRead(1, ok)
    \/ \E written \in BOOLEAN : OnSelectResume(1, written)
    \/ \E ok \in BOOLEAN : MountRead(ok)
    \/ MountResume

Spec == Init /\ [][Next]_vars

\* the backend: the client may be missing or replaced and a request may reject;
\* no selections, and the load at mount has completed
InitBackend ==
    /\ isOpen = FALSE
    /\ input = ""
    /\ debouncedInput = ""
    /\ timerPending = FALSE
    /\ elapsed = DebounceDelay
    /\ loading = FALSE
    /\ searchResults = <<>>
    /\ resultsFor = NoQuery
    /\ inflight = [q \in Queries |-> 0]
    /\ store = NoValue
    /\ recentResults = <<>>
    /\ mount = [pc |-> "done", snap |-> NoValue]
    /\ sel = [s \in Slots |-> IdleSelect]
    /\ log = <<>>
    /\ burstInputs = <<>>
    /\ burstEmitted = <<>>
    /\ burstRequests = 0
    /\ burstPrev = ""
    /\ issued = 0
    /\ supabase \in Clients \cup {NoClient}
    /\ AuxAtRest

NextBackend ==
    \/ Open
    \/ CloseModal
    \/ \E v \in Queries : OnInputChange(v)
    \/ \E d \in Durations : Tick(d)
    \/ DebounceFire
    \/ \E q \in Queries, ok \in BOOLEAN : SearchResolve(q, ok)
    \/ \E q \in Queries : SearchReject(q)
    \/ \E client \in Clients \cup {NoClient} : SupabaseChange(client)

SpecBackend == InitBackend /\ [][NextBackend]_vars

\* the recents list: selections one at a time over all routes, no typing,
\* from a palette whose load at mount has completed
StoredLists ==
    { NoValue, Stored(<<>>),
      Stored(<<Route("/a", "A")>>),
      Stored(<<Route("/a", "A"), Route("/b", "B"), Route("/c", "C")>>),
      Stored(<<Route("/a", "A"), Route("/b", "B"), Route("/c", "C"),
               Route("/d", "D"), Route("/e", "E")>>) }

InitRecents ==
    /\ isOpen = FALSE
    /\ input = ""
    /\ debouncedInput = ""
    /\ timerPending = FALSE
    /\ elapsed = DebounceDelay
    /\ loading = FALSE
    /\ searchResults = <<>>
    /\ resultsFor = NoQuery
    /\ inflight = [q \in Queries |-> 0]
    /\ store \in StoredLists
    /\ recentResults = store.list
    /\ mount = [pc |-> "done", snap |-> NoValue]
    /\ sel = [s \in Slots |-> IdleSelect]
    /\ log = <<>>
    /\ burstInputs = <<>>
    /\ burstEmitted = <<>>
    /\ burstRequests = 0
    /\ burstPrev = ""
    /\ issued = 0
    /\ supabase = "client1"
    /\ AuxAtRest

NextRecents ==
    \/ Open
    \/ CloseModal
    \/ \E route \in Routes : OnSelect(1, route)
    \/ \E ok \in BOOLEAN : StoreRead(1, ok)
    \/ \E written \in BOOLEAN : OnSelectResume(1, written)

SpecRecents == InitRecents /\ [][NextRecents]_vars

\* the load at mount, over every stored list, and the selections that may run
\* before it completes
MountRoutes == { Route("/a", "A"), Route("/f", "F") }

InitMount ==
    /\ isOpen = FALSE
    /\ input = ""
    /\ debouncedInput = ""
    /\ timerPending = FALSE
    /\ elapsed = DebounceDelay
    /\ loading = FALSE
    /\ searchResults = <<>>
    /\ resultsFor = NoQuery
    /\ inflight = [q \in Queries |-> 0]
    /\ store \in StoredLists
    /\ recentResults = <<>>
    /\ mount = [pc |-> "getItem", snap |-> NoValue]
    /\ sel = [s \in Slots |-> IdleSelect]
    /\ log = <<>>
    /\ burstInputs = <<>>
    /\ burstEmitted = <<>>
    /\ burstRequests = 0
    /\ burstPrev = ""
    /\ issued = 0
    /\ supabase = "client1"
    /\ AuxAtRest

NextMount ==
    \/ Open
    \/ CloseModal
    \/ \E route \in MountRoutes : OnSelect(1, route)
    \/ \E ok \in BOOLEAN : StoreRead(1, ok)
    \/ \E written \in BOOLEAN : OnSelectResume(1, written)
    \/ \E ok \in BOOLEAN : MountRead(ok)
    \/ MountResume

SpecMount == InitMount /\ [][NextMount]_vars

\* the pattern of every settled query of at most MaxQueryLen characters, and
\* of "acme" and "acme part"; the effect never searches for the empty query
InitPattern ==
    /\ SurfaceAtRest
    /\ query \in (Strings(MaxQueryLen) \cup {Acme, AcmePart}) \ {<<>>}
    /\ pattern = NoPattern
    /\ StaticAtRest
    /\ RenderAtRest

NextPattern == BuildPattern

SpecPattern == InitPattern /\ [][NextPattern]_vars

\* the static index under every permission set
InitStatic == SurfaceAtRest /\ PatternAtRest /\ StaticAtRest /\ RenderAtRest

NextStatic ==
    \/ \E r \in Resources : Grant(r)
    \/ \E r \in Resources : Revoke(r)

SpecStatic == InitStatic /\ [][NextStatic]_vars

\* Selections that overlap: a second item is selected, after the palette was
\* opened again, while the store read of the first is still awaited.
Selectable ==
    { Route("/a", "A"),
      Command(Route("/purchasing/suppliers", "Suppliers"), ModuleRegistry[3]),
      Command(Route("/x/purchasing/orders", "Purchase Orders"), ModuleRegistry[3]) }

InitOverlap ==
    /\ SurfaceAtRest /\ AuxAtRest
    /\ store \in {NoValue, Stored(<<Route("/a", "A")>>)}
    /\ recentResults = store.list

NextOverlap ==
    \/ Open
    \/ CloseModal
    \/ \E s \in Slots, route \in Selectable : OnSelect(s, route)
    \/ \E s \in Slots, ok \in BOOLEAN : StoreRead(s, ok)
    \/ \E s \in Slots, written \in BOOLEAN : OnSelectResume(s, written)

SpecOverlap == InitOverlap /\ [][NextOverlap]_vars

\* Typing under fair scheduling: time passes, a timer that is due fires, and
\* every request that was issued is answered.
InitLive == SurfaceAtRest /\ AuxAtRest

NextLive ==
    \/ Open
    \/ CloseModal
    \/ \E v \in Queries : OnInputChange(v)
    \/ \E d \in Durations : Tick(d)
    \/ DebounceFire
    \/ \E q \in Queries, ok \in BOOLEAN : SearchResolve(q, ok)

SpecLive ==
    /\ InitLive
    /\ [][NextLive]_vars
    /\ WF_vars(\E d \in Durations : Tick(d))
    /\ WF_vars(DebounceFire)
    /\ \A q \in Queries : WF_vars(\E ok \in BOOLEAN : SearchResolve(q, ok))

\* The palette of a user who may view Purchasing only, whose purchasing set
\* holds the single route Suppliers, on its first render with an empty store.
Suppliers == Route("/purchasing/suppliers", "Suppliers")

PurchasingOnly ==
    [grouped |-> [groupedSubmodules EXCEPT
                     !["purchasing"] = [groups |-> <<Group("Manage", <<Suppliers>>)>>]],
     ungrouped |-> ungroupedSubmodules]

InitPurchasing ==
    /\ isOpen = FALSE
    /\ input = ""
    /\ debouncedInput = ""
    /\ timerPending = FALSE
    /\ elapsed = DebounceDelay
    /\ loading = FALSE
    /\ searchResults = <<>>
    /\ resultsFor = NoQuery
    /\ inflight = [q \in Queries |-> 0]
    /\ store \in {NoValue, Stored(<<>>)}
    /\ recentResults = <<>>
    /\ mount = [pc |-> "getItem", snap |-> NoValue]
    /\ sel = [s \in Slots |-> IdleSelect]
    /\ log = <<>>
    /\ burstInputs = <<>>
    /\ burstEmitted = <<>>
    /\ burstRequests = 0
    /\ burstPrev = ""
    /\ issued = 0
    /\ supabase = "client1"
    /\ PatternAtRest /\ RenderAtRest
    /\ permissions = {"purchasing"}
    /\ modules = UseModules(permissions)
    /\ submodules = PurchasingOnly
    /\ staticResults = UseGroupedSubmodules(modules)
    /\ renderError = FALSE
    /\ lastChange = NoChange

NextPurchasing ==
    \/ Open
    \/ CloseModal
    \/ \E v \in Queries : OnInputChange(v)
    \/ \E d \in Durations : Tick(d)
    \/ DebounceFire
    \/ \E q \in Queries, ok \in BOOLEAN : SearchResolve(q, ok)
    \/ \E ok \in BOOLEAN : MountRead(ok)
    \/ MountResume

SpecPurchasing == InitPurchasing /\ [][NextPurchasing]_vars

\* The index build on module data as it may arrive: a descriptor without a
\* name, a grouped set without its groups, an ungrouped set without its links.
Nameless == [resource |-> "inventory", icon |-> "HiOutlineCube"]

ArrivingModules ==
    << ModuleRegistry[1], Nameless, ModuleRegistry[3], ModuleRegistry[4],
       ModuleRegistry[2] >>

\* the subsequence of list at the indices of S
SubSeqAt(list, S) ==
    LET F[i \in 0..Len(list)] ==
            IF i = 0 THEN <<>>
            ELSE IF i \in S THEN Append(F[i - 1], list[i]) ELSE F[i - 1]
    IN F[Len(list)]

ModuleLists == { SubSeqAt(ArrivingModules, S) : S \in SUBSET (1..Len(ArrivingModules)) }

SubmoduleSets ==
    { [grouped |-> g, ungrouped |-> u] :
        g \in { groupedSubmodules,
                [groupedSubmodules EXCEPT !["parts"] = [links |-> <<>>]] },
        u \in { ungroupedSubmodules,
                [ungroupedSubmodules EXCEPT !["documents"] = [groups |-> <<>>]] } }

\* the palette renders with the modules and submodule sets it was given
RenderModules ==
    /\ lastChange = NoChange
    /\ RenderStatic(modules)
    /\ lastChange' = [op |-> "render", resource |-> ""]
    /\ UNCHANGED <<isOpen, searchVars, debounceVars, burstVars, recentVars,
                   supabase, patternVars, renderVars, permissions, submodules>>

InitMalformed ==
    /\ SurfaceAtRest /\ PatternAtRest /\ RenderAtRest
    /\ permissions = Resources
    /\ modules \in ModuleLists
    /\ submodules \in SubmoduleSets
    /\ staticResults = <<>>
    /\ renderError = FALSE
    /\ lastChange = NoChange

NextMalformed == RenderModules

SpecMalformed == InitMalformed /\ [][NextMalformed]_vars

\* the values of the items of a render, for every recents list of RecentTos:
\* the first render of the open palette, then typing and responses
InitRender ==
    /\ SurfaceAtRest
    /\ PatternAtRest
    /\ StaticAtRest
    /\ \E tos \in RecentTos :
          shown = [recents |-> tos, static |-> StaticShown, input |-> <<>>,
                   dynamic |-> <<>>]
    /\ values = ItemValues(shown)

NextRender ==
    \/ \E c \in InputChars : RenderInput(c)
    \/ RenderCleared
    \/ \E ids \in ResultIds : RenderResults(ids)

SpecRender == InitRender /\ [][NextRender]_vars

\* ------------------------------------------------------------ claims
\* the recents list

\* C1: after any sequence of selections, from an empty or a valid persisted
\* list, the recents list holds at most 5 entries and no two entries with the
\* same `to`.
RecentsCappedAndUnique ==
    /\ Len(recentResults) <= MaxRecents
    /\ NoDuplicates(recentResults)

\* a selection has completed that cut the list to 5 entries
RecentsTruncated ==
    /\ Len(recentResults) = MaxRecents
    /\ \E i \in 1..Len(log) : log[i].op = "setRecentResults" /\ log[i].n > MaxRecents

Resumes(s) == sel[s].pc = "resume" /\ sel'[s].pc = "idle"

\* C2: selecting a route that is already in recents moves it to index 0,
\* keeps the relative order of the other entries and does not grow the list.
SelectMovesToFront ==
    [][\A s \in Slots :
          (Resumes(s) /\ sel[s].route.to \in Tos(recentResults))
              => recentResults' = <<sel[s].route>>
                                    \o FilterTo(recentResults, sel[s].route.to)]_vars

SlotOps(s) == SelectSeq(log, LAMBDA e : e.slot = s)
SelectEffects == <<"navigate", "onClose", "setRecentResults", "setItem">>

\* C10: a selection navigates to the item's route, then closes the palette,
\* then updates and persists the recents; the navigation has fired in every
\* execution, also when the store read or write fails or never completes.
SelectEffectsInOrder ==
    \A s \in Slots :
        LET ops == SlotOps(s)
        IN /\ Len(ops) <= Len(SelectEffects)
           /\ \A i \in 1..Len(ops) : ops[i].op = SelectEffects[i]
           /\ sel[s].pc # "idle" =>
                 /\ Len(ops) = 2
                 /\ ops[1].to = sel[s].route.to

\* a selection has run to its end: navigated, closed, updated, persisted
SelectCompleted ==
    \E s \in Slots : Len(SlotOps(s)) = 4 /\ sel[s].pc = "idle"

\* the debouncer and the dynamic section
BurstDone == burstInputs # <<>> /\ elapsed >= DebounceDelay /\ ~timerPending
LastInput == burstInputs[Len(burstInputs)]
NonEmptyBurst == \A i \in 1..Len(burstInputs) : burstInputs[i] # ""

\* C3: a burst of input changes, each less than 500 ms after the one before,
\* emits exactly one settled query, the last input, and issues exactly one
\* backend request.
BurstEmitsOnceAndSearchesOnce ==
    BurstDone => burstEmitted = <<LastInput>> /\ burstRequests = 1

\* C3 as amended: a burst of non-empty input changes emits exactly one settled
\* query, the last input, and issues one backend request when that input
\* differs from the query settled before the burst, and none when it equals it.
NonEmptyBurstEmitsOnce ==
    (BurstDone /\ NonEmptyBurst) =>
        /\ burstEmitted = <<LastInput>>
        /\ burstRequests = (IF LastInput # burstPrev THEN 1 ELSE 0)

\* a burst of three non-empty inputs has settled and searched once
BurstOfThreeSettled ==
    /\ BurstDone /\ NonEmptyBurst
    /\ Len(burstInputs) = 3
    /\ burstRequests = 1
    /\ debouncedInput = LastInput

Resolves(q) == inflight'[q] < inflight[q]

\* C4: the response to a request for an older settled query is not applied to
\* the dynamic section.
StaleResponseIgnored ==
    [][\A q \in Queries :
          (Resolves(q) /\ q # debouncedInput)
              => UNCHANGED <<searchResults, resultsFor>>]_vars

\* C5: loading is true only while a request for the current non-empty settled
\* query is in flight.
LoadingOnlyWhileLoading ==
    loading => (debouncedInput # "" /\ inflight[debouncedInput] > 0)

\* C6: when the input becomes empty, the empty query is settled in the same
\* step and the dynamic section is empty right after it.
EmptyInputClearsAtOnce ==
    [][(input # "" /\ input' = "")
          => (debouncedInput' = "" /\ searchResults' = <<>>)]_vars

\* C7: when the settled query becomes empty the dynamic section is emptied in
\* the same step, and no backend request is issued for the empty query.
EmptySettleClearsWithoutRequest ==
    /\ [][(debouncedInput # "" /\ debouncedInput' = "")
             => (searchResults' = <<>> /\ inflight' = inflight)]_vars
    /\ [](inflight[""] = 0)

\* the settled query was cleared in this burst, after a non-empty one
SettledQueryCleared ==
    /\ debouncedInput = ""
    /\ burstPrev # ""
    /\ burstEmitted = <<"">>
    /\ searchResults = <<>>

\* C8: whenever the settled query is empty, the dynamic section is empty.
EmptyQueryHasNoDocuments ==
    debouncedInput = "" => searchResults = <<>>

\* C9: after the palette is closed, a backend response changes neither the
\* dynamic section nor the loading flag.
ClosedPaletteIgnoresResponse ==
    [][(~isOpen /\ \E q \in Queries : Resolves(q))
          => UNCHANGED <<searchResults, loading>>]_vars

Selects(s) == sel[s].pc = "idle" /\ sel'[s].pc = "getItem"

\* C11: in the state reached when a selection has closed the palette, the
\* settled query is empty and the dynamic section is empty.
SelectClosesAndResets ==
    [][(\E s \in Slots : Selects(s))
          => (~isOpen' /\ debouncedInput' = "" /\ searchResults' = <<>>)]_vars

\* C12: right after the palette opens the input and the settled query are
\* empty and the debouncer holds no pending emission, so that no input typed
\* before the palette opened is emitted later.
OpenResetsDebouncer ==
    [][(~isOpen /\ isOpen')
          => (input' = "" /\ debouncedInput' = "" /\ ~timerPending')]_vars

\* the palette was closed by a selection while a query was settled, and it is
\* open again: the settled query was cleared in a burst of one empty input
ReopenedAfterSelect ==
    /\ isOpen
    /\ sel[1].pc # "idle"
    /\ input = "" /\ debouncedInput = "" /\ ~timerPending
    /\ burstPrev # ""
    /\ burstInputs = <<"">>

\* C13: when a backend search ends without rows (an error response, missing
\* data, a rejected request, no client), the dynamic section is empty and
\* loading is false right after it: every step that ends a request leaves
\* loading false and the dynamic section empty or holding the rows received.
FailedSearchDegrades ==
    [][\A q \in Queries :
          Resolves(q) =>
              /\ loading' = FALSE
              /\ searchResults' \in {<<>>, Slice(BackendRows(q), Limit)}
              /\ resultsFor' = q]_vars

\* C14: at most one backend request is issued per settled query: none is
\* issued again for the same settled value after a failure or when something
\* other than the settled query changes, such as the client.
OneRequestPerSettledQuery == issued <= 1

\* the recents list and the store

\* C16: when a write of the recents to the store fails, the in-memory list
\* stays authoritative: every selection puts its entry in front of the
\* in-memory list, without the entry of the same route, cut to 5.
SelectBuildsOnMemory ==
    [][\A s \in Slots :
          Resumes(s) => recentResults' =
                           NewRecentSearches(sel[s].route, Stored(recentResults))]_vars

MountFails == mount.pc = "getItem" /\ mount'.pc = "done"
MountResumes == mount.pc = "resume" /\ mount'.pc = "done"

SelectionHasUpdated == \E i \in 1..Len(log) : log[i].op = "setRecentResults"

\* C18: recents changes only through a selection, or through the load at
\* start as long as no selection has updated the list.
RecentsChangeOnlyBySelect ==
    [][recentResults' # recentResults =>
          \/ \E s \in Slots : Resumes(s)
          \/ MountResumes /\ ~SelectionHasUpdated]_vars

\* the backend pattern
WhiteSpace == {" ", "\t"}
\* the words of q: its longest runs of characters that are not white space
RECURSIVE Words(_)
Words(q) ==
    IF q = <<>> THEN <<>>
    ELSE IF Head(q) \in WhiteSpace THEN Words(Tail(q))
    ELSE LET rest == Words(Tail(q))
         IN IF Len(q) > 1 /\ q[2] \notin WhiteSpace
            THEN << <<Head(q)>> \o Head(rest) >> \o Tail(rest)
            ELSE << <<Head(q)>> >> \o rest
PatternOfWords(q) ==
    <<"*">> \o (IF Len(Words(q)) = 1 THEN q
                ELSE Join(MapQuoted(Words(q)), Adjacent)) \o <<":", "*">>

\* C15: the pattern is * P :* where the query is split into tokens on white
\* space and P is the query itself when there is one token, and otherwise the
\* tokens in double quotes joined with " <-> "; "acme part" gives
\* *"acme" <-> "part":* and "acme" gives *acme:*.
PatternSplitsOnWhiteSpace ==
    pattern # NoPattern => pattern = PatternOfWords(query)

\* the places of q where a run of characters other than the space begins
SpaceWordStarts(q) ==
    { i \in 1..Len(q) : q[i] # " " /\ (i = 1 \/ q[i - 1] = " ") }

\* C30: the built pattern holds no empty quoted token, whatever leading,
\* trailing or consecutive spaces the query has, and a query of a single word
\* with spaces around it is sent as a single token, without quotes.
PatternHasNoEmptyToken ==
    pattern # NoPattern =>
        /\ \A i \in 1..(Len(pattern) - 1) :
              ~(pattern[i] = "\"" /\ pattern[i + 1] = "\"")
        /\ Cardinality(SpaceWordStarts(query)) = 1 =>
              \A i \in 1..Len(pattern) : pattern[i] # "\""

\* the static index
StaticKeys == { staticResults[i].module : i \in 1..Len(staticResults) }
VisibleNames ==
    { UseModules(permissions)[i].name : i \in 1..Len(UseModules(permissions)) }

\* C20: in every state, right after a change of the permission set included,
\* every key of the static groups is the display name of a module that the
\* permission-filtered module list holds.
StaticGroupsAreVisible == StaticKeys \subseteq VisibleNames

\* a module with a group has just lost its permission, and other groups remain
GroupRevoked ==
    /\ lastChange.op = "revoke"
    /\ lastChange.resource \in {"parts", "purchasing", "documents", "users"}
    /\ staticResults # <<>>

RegistryIndex(name) ==
    CHOOSE i \in 1..Len(ModuleRegistry) : ModuleRegistry[i].name = name
\* where the routes of the module called name are declared: <<group, route>>
DeclaredAt(name) ==
    LET key == ToLowerCase(name)
    IN IF key \in DOMAIN groupedSubmodules
       THEN UNION { { <<g, r>> :
                          r \in 1..Len(groupedSubmodules[key].groups[g].routes) } :
                      g \in 1..Len(groupedSubmodules[key].groups) }
       ELSE { <<1, r>> : r \in 1..Len(ungroupedSubmodules[key].links) }
DeclaredRoute(name, p) ==
    LET key == ToLowerCase(name)
    IN IF key \in DOMAIN groupedSubmodules
       THEN groupedSubmodules[key].groups[p[1]].routes[p[2]]
       ELSE ungroupedSubmodules[key].links[p[2]]
\* the place of declaration p among the declarations of the module
Rank(name, p) ==
    Cardinality({ o \in DeclaredAt(name) :
                    o[1] < p[1] \/ (o[1] = p[1] /\ o[2] <= p[2]) })

\* C21: the modules of the static groups are in registry order, and the
\* commands of a module are its declared routes in declaration order (groups
\* in order, routes in order within a group, links in order), each with the
\* icon of the module.
StaticIndexKeepsOrder ==
    /\ \A i, j \in 1..Len(staticResults) :
          i < j => RegistryIndex(staticResults[i].module)
                     < RegistryIndex(staticResults[j].module)
    /\ \A i \in 1..Len(staticResults) :
          LET name == staticResults[i].module
              commands == staticResults[i].submodules
          IN /\ Len(commands) = Cardinality(DeclaredAt(name))
             /\ \A p \in DeclaredAt(name) :
                   commands[Rank(name, p)] =
                       [to |-> DeclaredRoute(name, p).to,
                        name |-> DeclaredRoute(name, p).name,
                        icon |-> ModuleRegistry[RegistryIndex(name)].icon]

\* the first module of the registry was granted after later ones: its group
\* is first, before a module of two groups and an ungrouped one
FirstModuleGrantedLast ==
    /\ lastChange = [op |-> "grant", resource |-> "parts"]
    /\ {"purchasing", "documents"} \subseteq permissions
    /\ Len(staticResults) >= 3

\* C23: whenever the permission set makes no module visible, the static
\* groups are the empty map and the build raised no error.
NoVisibleModuleNoGroups ==
    UseModules(permissions) = <<>> => staticResults = <<>> /\ ~renderError

\* the last visible module has just lost its permission
LastModuleRevoked ==
    /\ lastChange.op = "revoke"
    /\ UseModules(permissions) = <<>>
    /\ modules = <<>>

\* the to and name of the commands of static group i
Links(i) ==
    [ k \in 1..Len(staticResults[i].submodules) |->
        Route(staticResults[i].submodules[k].to, staticResults[i].submodules[k].name) ]

\* C24: for the user who may view Purchasing only, with the single route
\* Suppliers and an empty store, as long as no input was typed the static
\* groups are {Purchasing: [Suppliers -> /purchasing/suppliers]}, recents and
\* the dynamic section are empty, loading is false and no request was issued.
InitialResultSet ==
    burstInputs = <<>> =>
        /\ Len(staticResults) = 1
        /\ staticResults[1].module = "Purchasing"
        /\ Links(1) = <<Suppliers>>
        /\ recentResults = <<>>
        /\ searchResults = <<>>
        /\ ~loading
        /\ Total(inflight) = 0
        /\ burstRequests = 0 /\ issued = 0

\* the palette is open for the first time, its store read, nothing typed yet
OpenedUntouched ==
    /\ isOpen
    /\ mount.pc = "done"
    /\ burstInputs = <<>>
    /\ modules = <<ModuleRegistry[3]>>

\* C25: every request carries the limit 20, so in every state the dynamic
\* section holds at most 20 documents, however many rows match.
DynamicAtMostLimit == Len(searchResults) <= Limit

\* a query with more than 20 matching rows was answered
LimitReached ==
    /\ resultsFor = "w"
    /\ Len(BackendRows("w")) > Limit
    /\ Len(searchResults) = Limit

Persisted(s) == \E i \in 1..Len(log) : log[i].slot = s /\ log[i].op = "setItem"
Navigations == SelectSeq(log, LAMBDA e : e.op = "navigate")

\* C27: once selections whose store reads and writes overlapped have all
\* completed and persisted, recents holds the route of every one of them, the
\* last-selected route first.
OverlappingSelectionsKept ==
    (AllIdle /\ \A s \in Slots : Persisted(s)) =>
        /\ \A i \in 1..Len(Navigations) : Navigations[i].to \in Tos(recentResults)
        /\ recentResults[1].to = Navigations[Len(Navigations)].to

Writes(s) == Resumes(s) /\ Len(log') = Len(log) + 2

SettledOn(v) ==
    /\ debouncedInput = v
    /\ ~loading
    /\ IF v = "" THEN searchResults = <<>> ELSE resultsFor = v

\* C29: with every issued request answered, once the input stays at a value
\* the palette eventually reaches, and stays in, a state settled on that value.
EventuallySettledOnLastInput ==
    \A v \in Queries : <>[](input = v) => <>[]SettledOn(v)

Issues == Total(inflight') > Total(inflight)
Headings == { CommandGroups[i] : i \in 1..Len(CommandGroups) }

\* C26: a step that issues a backend request or applies a response, rows or
\* failure, leaves recents and the static groups as they were, and in every
\* state, loading or not, the command list renders the recents group when
\* there are recents and every static group.
SearchKeepsRecentsAndStatic ==
    /\ [][(Issues \/ \E q \in Queries : Resolves(q))
            => UNCHANGED <<recentResults, staticResults>>]_vars
    /\ [](/\ recentResults # <<>> => "Recent Searches" \in Headings
          /\ \A i \in 1..Len(staticResults) : staticResults[i].module \in Headings)

\* a request is awaited while recents and static groups are there
LoadingWithRecents ==
    /\ loading
    /\ Total(inflight) > 0
    /\ recentResults # <<>>
    /\ staticResults # <<>>

\* the display names of the given modules that the build can index: named, and
\* registered with a set that has its list
Indexable ==
    { modules[i].name : i \in { j \in 1..Len(modules) :
        /\ "name" \in DOMAIN modules[j]
        /\ ~ReduceStepThrows(modules[j])
        /\ ToLowerCase(modules[j].name) \in
               DOMAIN submodules.grouped \cup DOMAIN submodules.ungrouped } }

\* C22: once the palette has rendered with module data, no error was raised
\* and the static groups hold a key for every well-formed registered module
\* of the list, whatever malformed descriptors or sets came with them.
BuildSkipsMalformed ==
    lastChange.op = "render" => ~renderError /\ StaticKeys = Indexable

Registered == DOMAIN groupedSubmodules \cup DOMAIN ungroupedSubmodules

\* C31: the keys of the static groups are exactly the display names of the
\* visible modules whose lower-cased name has a registered submodule set: a
\* visible module without one is left out, and one whose set has no route is
\* kept, with the empty list.
StaticKeysAreRegisteredVisible ==
    /\ StaticKeys = { name \in VisibleNames : ToLowerCase(name) \in Registered }
    /\ \A name \in VisibleNames :
          (ToLowerCase(name) \in Registered /\ DeclaredAt(name) = {}) =>
              \E i \in 1..Len(staticResults) :
                  /\ staticResults[i].module = name
                  /\ staticResults[i].submodules = <<>>

\* a module without a registered set and one without routes are both visible
UnregisteredAndEmptyVisible ==
    /\ lastChange.op = "grant"
    /\ {"Jobs", "Settings", "Parts"} \subseteq VisibleNames
    /\ "Jobs" \notin StaticKeys
    /\ \E i \in 1..Len(staticResults) : staticResults[i].submodules = <<>>

\* C19: in every state the identity values offered for selection are unique
\* across the recents items, the items of all static groups and the dynamic
\* items of the render.
ItemValuesUnique ==
    \A i, j \in 1..Len(values) : i # j => values[i] # values[j]
====
